---- MODULE Spec2Model ----
(***************************************************************************)
(* Model of the HomeAgent reconciler of the prairie-operator               *)
(* (controllers/homeagent_controller.go).                                  *)
(*                                                                         *)
(* The store holds one HomeAgent identity (Namespace/Name), the Deployment *)
(* of that identity and the Pods of the cluster.  One Reconcile invocation *)
(* is one action: it runs the whole handler against the store, with one    *)
(* store operation of the invocation chosen to fail (or none).             *)
(***************************************************************************)
EXTENDS Integers, Sequences, FiniteSets, TLC

\* ---------------------------------------------------------------- bounds
MaxSize == 2          \* largest spec.size a user writes
MaxLiveSize == 3      \* largest spec.size of the full scenario (SpecLive)
MaxPods == (IF MaxSize > MaxLiveSize THEN MaxSize ELSE MaxLiveSize) + 1

\* ------------------------------------------------------------- constants
WaitDuration == 800   \* time.ParseDuration("800ms")
Name == "ha-sample"
Namespace == "default"
OtherNamespace == "other"
OtherName == "ha-other"
Req == [namespace |-> Namespace, name |-> Name]

AddrPool == <<"2001:db8::1", "2001:db8::2", "2001:db8::3",
              "2001:db8::4", "2001:db8::5", "2001:db8::6">>

\* Store operations a Reconcile invocation issues, by call site.
Ops == {"GetHomeAgent", "GetDeployment", "Create", "List", "StatusUpdate",
        "DeleteGet", "Delete"}
Mutating == {"Create", "Delete", "StatusUpdate"}
FailChoices == Ops \cup {"none"}

VARIABLES ha, dep, pods, last, succ, pending, inv, serial
vars == <<ha, dep, pods, last, succ, pending, inv, serial>>

\* ------------------------------------------------------------ store objects
NoHomeAgent == [exists |-> FALSE, name |-> "", namespace |-> "", size |-> 0,
                nodeIps |-> <<>>]
NoDeployment == [exists |-> FALSE, name |-> "", namespace |-> "",
                 replicas |-> 0, parent |-> "", readyReplicas |-> 0]
NoLast == [invoked |-> FALSE]

\* Invocations in flight (the stepwise specifications): their position in
\* Reconcile and their local copy of the HomeAgent.
Procs == {1, 2}
IdleInv == [pc |-> "idle", size |-> 0, podips |-> <<>>, outcome |-> "none",
            err |-> "nil", created |-> FALSE, stale |-> FALSE]
InFlight(i) == i.pc \notin {"idle", "finished"}

\* r.Get: the object is found when it exists under the requested key.
Found(obj, req) ==
    obj.exists /\ obj.name = req.name /\ obj.namespace = req.namespace

\* r.List(ctx, pods, client.MatchingLabels{"parent": name}): the label is the
\* only list option, no namespace is given.
List(p, name) == SelectSeq(p, LAMBDA pod : pod.parent = name)

\* CreateDeployment with a fixed replica count instead of agent.Spec.Size.
CreateDeployment_OneReplica(agent) ==
    [exists |-> TRUE, name |-> agent.name, namespace |-> agent.namespace,
     replicas |-> 1, parent |-> agent.name, readyReplicas |-> 0]

\* CreateDeployment: name, namespace, replicas and labels of the Deployment.
CreateDeployment(agent) ==
    [exists |-> TRUE, name |-> agent.name, namespace |-> agent.namespace,
     replicas |-> agent.size, parent |-> agent.name, readyReplicas |-> 0]

\* The readiness test with <= for <.
NotReady_Le(deployment, agent) == deployment.readyReplicas <= agent.size

\* The readiness test on Spec.Replicas instead of Status.ReadyReplicas.
NotReady_Replicas(deployment, agent) == deployment.replicas < agent.size

\* deployment.Status.ReadyReplicas < home_agent.Spec.Size
NotReady(deployment, agent) == deployment.readyReplicas < agent.size

\* podips := make([]string, size); the loop over pods.Items.
\* kind: "requeue" (a pod without ip), "panic" (index out of range) or "ok".
RECURSIVE PodIpsLoop(_, _, _)
PodIpsLoop(items, idx, podips) ==
    IF idx > Len(items) THEN [kind |-> "ok", podips |-> podips]
    ELSE IF items[idx].ip = "" THEN [kind |-> "requeue", podips |-> podips]
    ELSE IF idx > Len(podips) THEN [kind |-> "panic", podips |-> podips]
    ELSE PodIpsLoop(items, idx + 1, [podips EXCEPT ![idx] = items[idx].ip])

\* The address loop without the test for an empty ip (and without the panic).
PodIps_NoCheck(items, size) ==
    [kind |-> "ok",
     podips |-> [i \in 1..size |->
                   IF i <= Len(items) THEN items[i].ip ELSE ""]]

PodIps(items, size) == PodIpsLoop(items, 1, [i \in 1..size |-> ""])

\* Outcome of an invocation: the store it leaves and what it returns.
Ret(h, d, outcome, after, err, calls, failed, created, podips) ==
    [ha |-> h, dep |-> d, outcome |-> outcome, after |-> after, err |-> err,
     calls |-> calls, failed |-> failed, created |-> created,
     podips |-> podips]

\* DeleteDeployment that never issues the delete.
DeleteDeployment_NoDelete(d, req, fail) ==
    [dep |-> d, calls |-> <<"DeleteGet">>,
     failed |-> IF fail = "DeleteGet" THEN "DeleteGet" ELSE "none"]

\* DeleteDeployment that deletes first and reads the Deployment afterwards.
DeleteDeployment_DeleteFirst(d, req, fail) ==
    IF ~Found(d, req) THEN
        [dep |-> d, calls |-> <<"Delete", "DeleteGet">>,
         failed |-> IF fail = "DeleteGet" THEN "DeleteGet" ELSE "none"]
    ELSE IF fail = "Delete" THEN
        [dep |-> d, calls |-> <<"Delete", "DeleteGet">>, failed |-> "Delete"]
    ELSE
        [dep |-> NoDeployment, calls |-> <<"Delete", "DeleteGet">>,
         failed |-> IF fail = "DeleteGet" THEN "DeleteGet" ELSE "none"]

\* DeleteDeployment: get the Deployment, return on any error, else delete it;
\* the result of Delete is dropped.
DeleteDeployment(d, req, fail) ==
    IF fail = "DeleteGet" THEN
        [dep |-> d, calls |-> <<"DeleteGet">>, failed |-> "DeleteGet"]
    ELSE IF ~Found(d, req) THEN
        [dep |-> d, calls |-> <<"DeleteGet">>, failed |-> "none"]
    ELSE IF fail = "Delete" THEN
        [dep |-> d, calls |-> <<"DeleteGet", "Delete">>, failed |-> "Delete"]
    ELSE
        [dep |-> NoDeployment, calls |-> <<"DeleteGet", "Delete">>,
         failed |-> "none"]

\* The create branch returning an empty Result instead of RequeueAfter.
CreateBranch_NoRequeue(h, d, fail) ==
    LET obj == CreateDeployment(h)
        calls == <<"GetHomeAgent", "GetDeployment", "Create">>
    IN  IF fail = "Create"
        THEN Ret(h, d, "error", 0, "Create", calls, "Create", obj, <<>>)
        ELSE Ret(h, obj, "done", 0, "nil", calls, "none", obj, <<>>)

\* The branch taken when the Deployment is not found: create it and requeue.
CreateBranch(h, d, fail) ==
    LET obj == CreateDeployment(h)
        calls == <<"GetHomeAgent", "GetDeployment", "Create">>
    IN  IF fail = "Create"
        THEN Ret(h, d, "error", 0, "Create", calls, "Create", obj, <<>>)
        ELSE Ret(h, obj, "requeue", WaitDuration, "nil", calls, "none", obj,
                 <<>>)

\* The pod listing, the address loop and the status update.
StatusBranch(h, d, p, fail) ==
    LET calls == <<"GetHomeAgent", "GetDeployment", "List">> IN
    IF fail = "List"
    THEN Ret(h, d, "error", 0, "List", calls, "List", NoDeployment, <<>>)
    ELSE
      LET loop == PodIps(List(p, h.name), h.size) IN
      IF loop.kind = "requeue"
      THEN Ret(h, d, "requeue", WaitDuration, "nil", calls, "none",
               NoDeployment, <<>>)
      ELSE IF loop.kind = "panic"
      THEN Ret(h, d, "panic", 0, "nil", calls, "none", NoDeployment, <<>>)
      ELSE IF fail = "StatusUpdate"
      THEN Ret(h, d, "error", 0, "StatusUpdate",
               Append(calls, "StatusUpdate"), "StatusUpdate", NoDeployment,
               loop.podips)
      ELSE Ret([h EXCEPT !.nodeIps = loop.podips], d, "done", 0, "nil",
               Append(calls, "StatusUpdate"), "none", NoDeployment,
               loop.podips)

\* Reconcile returning the not-found error of the HomeAgent read after the
\* cleanup, instead of nil.
Reconcile_CleanupErr(req, h, d, p, fail) ==
    IF fail = "GetHomeAgent" THEN
        Ret(h, d, "error", 0, "GetHomeAgent", <<"GetHomeAgent">>,
            "GetHomeAgent", NoDeployment, <<>>)
    ELSE IF ~Found(h, req) THEN
        LET del == DeleteDeployment(d, req, fail) IN
        Ret(h, del.dep, "error", 0, "NotFound",
            <<"GetHomeAgent">> \o del.calls, del.failed, NoDeployment, <<>>)
    ELSE IF fail = "GetDeployment" THEN
        Ret(h, d, "error", 0, "GetDeployment",
            <<"GetHomeAgent", "GetDeployment">>, "GetDeployment",
            NoDeployment, <<>>)
    ELSE IF ~Found(d, req) THEN CreateBranch(h, d, fail)
    ELSE IF NotReady(d, h) THEN
        Ret(h, d, "requeue", WaitDuration, "nil",
            <<"GetHomeAgent", "GetDeployment">>, "none", NoDeployment, <<>>)
    ELSE StatusBranch(h, d, p, fail)

\* Reconcile with a branch that patches Spec.Replicas of a found Deployment
\* to Spec.Size when they differ.
Reconcile_Resize(req, h, d, p, fail) ==
    IF fail = "GetHomeAgent" THEN
        Ret(h, d, "error", 0, "GetHomeAgent", <<"GetHomeAgent">>,
            "GetHomeAgent", NoDeployment, <<>>)
    ELSE IF ~Found(h, req) THEN
        LET del == DeleteDeployment(d, req, fail) IN
        Ret(h, del.dep, "done", 0, "nil", <<"GetHomeAgent">> \o del.calls,
            del.failed, NoDeployment, <<>>)
    ELSE IF fail = "GetDeployment" THEN
        Ret(h, d, "error", 0, "GetDeployment",
            <<"GetHomeAgent", "GetDeployment">>, "GetDeployment",
            NoDeployment, <<>>)
    ELSE IF ~Found(d, req) THEN CreateBranch(h, d, fail)
    ELSE IF d.replicas # h.size THEN
        Ret(h, [d EXCEPT !.replicas = h.size], "requeue", WaitDuration,
            "nil", <<"GetHomeAgent", "GetDeployment", "Update">>, "none",
            NoDeployment, <<>>)
    ELSE IF NotReady(d, h) THEN
        Ret(h, d, "requeue", WaitDuration, "nil",
            <<"GetHomeAgent", "GetDeployment">>, "none", NoDeployment, <<>>)
    ELSE StatusBranch(h, d, p, fail)

\* Reconcile(ctx, req) against the store (h, d, p); fail is the store
\* operation that fails with an error other than not-found, if it is issued.
Reconcile(req, h, d, p, fail) ==
    IF fail = "GetHomeAgent" THEN
        Ret(h, d, "error", 0, "GetHomeAgent", <<"GetHomeAgent">>,
            "GetHomeAgent", NoDeployment, <<>>)
    ELSE IF ~Found(h, req) THEN
        LET del == DeleteDeployment(d, req, fail) IN
        Ret(h, del.dep, "done", 0, "nil", <<"GetHomeAgent">> \o del.calls,
            del.failed, NoDeployment, <<>>)
    ELSE IF fail = "GetDeployment" THEN
        Ret(h, d, "error", 0, "GetDeployment",
            <<"GetHomeAgent", "GetDeployment">>, "GetDeployment",
            NoDeployment, <<>>)
    ELSE IF ~Found(d, req) THEN CreateBranch(h, d, fail)
    ELSE IF NotReady(d, h) THEN
        Ret(h, d, "requeue", WaitDuration, "nil",
            <<"GetHomeAgent", "GetDeployment">>, "none", NoDeployment, <<>>)
    ELSE StatusBranch(h, d, p, fail)

\* ------------------------------------------------------------------ helpers
Min(a, b) == IF a < b THEN a ELSE b
Own(pod) == pod.namespace = Namespace /\ pod.parent = Name
OwnPods(p) == SelectSeq(p, Own)
WithIp(p) == SelectSeq(p, LAMBDA pod : pod.ip # "")
UsedAddrs(p) == {p[i].ip : i \in 1..Len(p)}
NextAddr(p) ==
    AddrPool[CHOOSE i \in 1..Len(AddrPool) :
                /\ AddrPool[i] \notin UsedAddrs(p)
                /\ \A j \in 1..(i - 1) : AddrPool[j] \in UsedAddrs(p)]

\* -------------------------------------------------------------------- Init
Init ==
    /\ ha = NoHomeAgent
    /\ dep = NoDeployment
    /\ pods = <<>>
    /\ last = NoLast
    /\ succ = 0
    /\ pending = FALSE
    /\ inv = [p \in Procs |-> IdleInv]
    /\ serial = TRUE

\* ------------------------------------------------------- reconcile action
Invoke(fail) ==
    LET r == Reconcile(Req, ha, dep, pods, fail) IN
    /\ fail = "none" \/ r.failed = fail    \* the failing call is issued
    /\ ha' = r.ha
    /\ dep' = r.dep
    /\ pods' = pods
    /\ last' = [invoked |-> TRUE, outcome |-> r.outcome,
                after |-> r.after, err |-> r.err, calls |-> r.calls,
                failed |-> r.failed, created |-> r.created,
                podips |-> r.podips,
                pre |-> [ha |-> ha, dep |-> dep, pods |-> pods]]
    /\ succ' = IF r.failed # "none" THEN 0 ELSE Min(succ + 1, 2)
    /\ pending' = (r.outcome = "requeue")
    /\ UNCHANGED <<inv, serial>>

\* The dispatcher invokes Reconcile for the identity (at any time; a
\* requeue is not needed for an invocation to happen).
ReconcileStep == \E fail \in FailChoices : Invoke(fail)

\* --------------------------------------------------- environment actions
Env == /\ last' = NoLast
       /\ succ' = 0
       /\ UNCHANGED <<inv, serial>>

UserCreate ==
    /\ ~ha.exists
    /\ \E s \in 0..MaxSize :
         ha' = [exists |-> TRUE, name |-> Name, namespace |-> Namespace,
                size |-> s, nodeIps |-> <<>>]
    /\ pending' = TRUE
    /\ UNCHANGED <<dep, pods>>
    /\ Env

UserDelete ==
    /\ ha.exists
    /\ ha' = NoHomeAgent
    /\ pending' = TRUE
    /\ UNCHANGED <<dep, pods>>
    /\ Env

UserSetSize ==
    /\ ha.exists
    /\ \E s \in 0..MaxSize : s # ha.size /\ ha' = [ha EXCEPT !.size = s]
    /\ pending' = TRUE
    /\ UNCHANGED <<dep, pods>>
    /\ Env

\* The Deployment's own controller starts a Pod from the template.
PodCreate ==
    /\ dep.exists
    /\ Len(OwnPods(pods)) < dep.replicas
    /\ Len(pods) < MaxPods
    /\ pods' = Append(pods, [namespace |-> dep.namespace,
                             parent |-> dep.parent, ip |-> ""])
    /\ UNCHANGED <<ha, dep, pending>>
    /\ Env

\* A Pod is scheduled and gets its address.
PodAssignIp ==
    /\ \E i \in 1..Len(pods) :
         /\ pods[i].ip = ""
         /\ pods' = [pods EXCEPT ![i].ip = NextAddr(pods)]
    /\ UNCHANGED <<ha, dep, pending>>
    /\ Env

\* The Deployment's status counts one more ready Pod.
PodReady ==
    /\ dep.exists
    /\ dep.readyReplicas < Len(WithIp(OwnPods(pods)))
    /\ dep' = [dep EXCEPT !.readyReplicas = @ + 1]
    /\ UNCHANGED <<ha, pods, pending>>
    /\ Env

\* A Pod of the Deployment goes away (it is evicted or its node is lost);
\* the ready count of the Deployment's status is not yet brought up to date.
PodGone ==
    /\ dep.exists
    /\ \E i \in 1..Len(pods) :
         /\ Own(pods[i])
         /\ pods' = [j \in 1..(Len(pods) - 1) |->
                       IF j < i THEN pods[j] ELSE pods[j + 1]]
    /\ UNCHANGED <<ha, dep, pending>>
    /\ Env

\* The Deployment's status catches up with the Pods that are left.
ReadyDown ==
    /\ dep.exists
    /\ dep.readyReplicas > Len(WithIp(OwnPods(pods)))
    /\ dep' = [dep EXCEPT !.readyReplicas = @ - 1]
    /\ UNCHANGED <<ha, pods, pending>>
    /\ Env

\* The Pods of a Deployment that is gone are collected.
PodDelete ==
    /\ ~dep.exists
    /\ OwnPods(pods) # <<>>
    /\ pods' = SelectSeq(pods, LAMBDA pod : ~Own(pod))
    /\ UNCHANGED <<ha, dep, pending>>
    /\ Env

\* A Pod that is not of this identity's Deployment appears, already running
\* (one such Pod at a time):
\* one of another namespace carrying the same parent label, or one of this
\* namespace carrying another parent label.
ForeignPod ==
    /\ \A i \in 1..Len(pods) : Own(pods[i])
    /\ \E k \in {[namespace |-> OtherNamespace, parent |-> Name],
                 [namespace |-> Namespace, parent |-> OtherName]} :
         pods' = Append(pods, [namespace |-> k.namespace,
                               parent |-> k.parent, ip |-> NextAddr(pods)])
    /\ UNCHANGED <<ha, dep, pending>>
    /\ Env

\* It goes away again.
ForeignPodDelete ==
    /\ \E i \in 1..Len(pods) : ~Own(pods[i])
    /\ pods' = OwnPods(pods)
    /\ UNCHANGED <<ha, dep, pending>>
    /\ Env

Next ==
    \/ ReconcileStep
    \/ UserCreate
    \/ UserDelete
    \/ UserSetSize
    \/ PodCreate
    \/ PodAssignIp
    \/ PodReady
    \/ PodDelete
    \/ ForeignPod
    \/ ForeignPodDelete

Spec == Init /\ [][Next]_vars

\* ------------------------------------------- the full scenario, with fairness
\* A HomeAgent of some size has been created and is not changed again; no
\* store operation fails; the dispatcher invokes Reconcile for the creation
\* event and after every requeue; the Deployment's controller runs.
InitLive ==
    /\ \E s \in 0..MaxLiveSize :
         ha = [exists |-> TRUE, name |-> Name, namespace |-> Namespace,
               size |-> s, nodeIps |-> <<>>]
    /\ dep = NoDeployment
    /\ pods = <<>>
    /\ last = NoLast
    /\ succ = 0
    /\ pending = TRUE
    /\ inv = [p \in Procs |-> IdleInv]
    /\ serial = TRUE

Dispatch == pending /\ Invoke("none")

\* The dispatcher may also invoke Reconcile when no requeue is due.
Redeliver == ~pending /\ Invoke("none")

NextLive ==
    \/ Dispatch
    \/ Redeliver
    \/ PodCreate
    \/ PodAssignIp
    \/ PodReady

SpecLive ==
    /\ InitLive
    /\ [][NextLive]_vars
    /\ WF_vars(Dispatch)
    /\ WF_vars(PodCreate)
    /\ WF_vars(PodAssignIp)
    /\ WF_vars(PodReady)

\* ----------------------------------------------- Pods that come and go
\* The HomeAgent is created and deleted but not resized, no foreign Pod
\* appears; the Pods of the Deployment may go away at any time, and the
\* Deployment's ready count follows them with a delay.
NextChurn ==
    \/ ReconcileStep
    \/ UserCreate
    \/ UserDelete
    \/ PodCreate
    \/ PodAssignIp
    \/ PodReady
    \/ PodGone
    \/ ReadyDown
    \/ PodDelete

SpecChurn == Init /\ [][NextChurn]_vars

\* --------------------------------- Reconcile, one store operation at a time
\* Each step is one store call of Reconcile together with the local code up
\* to the next call; the user and the Deployment's controller act between the
\* steps.  A step may fail (failing), which stands for any error other than
\* not-found, a conflict on a stale resourceVersion included.
Fin(i, outcome, err) ==
    [i EXCEPT !.pc = "finished", !.outcome = outcome, !.err = err]

\* home_agent as the invocation holds it: the object read at line 63 with
\* Status.NodeIps assigned at line 118.
LocalAgent(i) ==
    [exists |-> TRUE, name |-> Req.name, namespace |-> Req.namespace,
     size |-> i.size, nodeIps |-> i.podips]

\* An update of the whole object, as r.Update would do.
StatusOnlyUpdate_Full(stored, obj) == obj

\* r.Status().Update(ctx, home_agent): only the status of the stored object
\* is replaced.
StatusOnlyUpdate(stored, obj) == [stored EXCEPT !.nodeIps = obj.nodeIps]

\* r.Create taking an already existing Deployment for a success.
CreateCall_IgnoreExists(d, obj, failing) ==
    IF failing THEN [dep |-> d, outcome |-> "error", err |-> "Create"]
    ELSE IF d.exists
    THEN [dep |-> d, outcome |-> "requeue", err |-> "nil"]
    ELSE [dep |-> obj, outcome |-> "requeue", err |-> "nil"]

\* err = r.Create(...) and the two returns that follow it; the store refuses
\* to create an object whose key exists.
CreateCall(d, obj, failing) ==
    IF failing THEN [dep |-> d, outcome |-> "error", err |-> "Create"]
    ELSE IF d.exists
    THEN [dep |-> d, outcome |-> "error", err |-> "AlreadyExists"]
    ELSE [dep |-> obj, outcome |-> "requeue", err |-> "nil"]

\* The dispatcher starts an invocation; with serial it waits for the one in
\* flight.  The record of an invocation that has returned is dropped.
Start(p) ==
    /\ ~InFlight(inv[p])
    /\ serial => \A q \in Procs : ~InFlight(inv[q])
    /\ inv' = [q \in Procs |->
                 IF q = p THEN [IdleInv EXCEPT !.pc = "GetHomeAgent"]
                 ELSE IF InFlight(inv[q]) THEN inv[q] ELSE IdleInv]
    /\ UNCHANGED <<ha, dep, pods, last, succ, pending, serial>>

StepGetHomeAgent(p) ==
    /\ inv[p].pc = "GetHomeAgent"
    /\ \E failing \in BOOLEAN :
         inv' = [inv EXCEPT ![p] =
                   IF failing THEN Fin(@, "error", "GetHomeAgent")
                   ELSE IF ~Found(ha, Req) THEN [@ EXCEPT !.pc = "DeleteGet"]
                   ELSE [@ EXCEPT !.pc = "GetDeployment", !.size = ha.size]]
    /\ UNCHANGED <<ha, dep, pods, last, succ, pending, serial>>

StepDeleteGet(p) ==
    /\ inv[p].pc = "DeleteGet"
    /\ \E failing \in BOOLEAN :
         inv' = [inv EXCEPT ![p] =
                   IF failing \/ ~Found(dep, Req) THEN Fin(@, "done", "nil")
                   ELSE [@ EXCEPT !.pc = "Delete"]]
    /\ UNCHANGED <<ha, dep, pods, last, succ, pending, serial>>

StepDelete(p) ==
    /\ inv[p].pc = "Delete"
    /\ \E failing \in BOOLEAN :
         dep' = IF failing THEN dep ELSE NoDeployment
    /\ inv' = [inv EXCEPT ![p] = Fin(@, "done", "nil")]
    /\ UNCHANGED <<ha, pods, last, succ, pending, serial>>

StepGetDeployment(p) ==
    /\ inv[p].pc = "GetDeployment"
    /\ \E failing \in BOOLEAN :
         inv' = [inv EXCEPT ![p] =
                   IF failing THEN Fin(@, "error", "GetDeployment")
                   ELSE IF ~Found(dep, Req) THEN [@ EXCEPT !.pc = "Create"]
                   ELSE IF NotReady(dep, LocalAgent(@))
                   THEN Fin(@, "requeue", "nil")
                   ELSE [@ EXCEPT !.pc = "List"]]
    /\ UNCHANGED <<ha, dep, pods, last, succ, pending, serial>>

StepCreate(p) ==
    /\ inv[p].pc = "Create"
    /\ \E failing \in BOOLEAN :
         LET c == CreateCall(dep, CreateDeployment(LocalAgent(inv[p])),
                             failing)
         IN  /\ dep' = c.dep
             /\ inv' = [inv EXCEPT ![p] =
                          [Fin(@, c.outcome, c.err) EXCEPT !.created = TRUE]]
    /\ UNCHANGED <<ha, pods, last, succ, pending, serial>>

StepList(p) ==
    /\ inv[p].pc = "List"
    /\ \E failing \in BOOLEAN :
         LET loop == PodIps(List(pods, Req.name), inv[p].size) IN
         inv' = [inv EXCEPT ![p] =
                   IF failing THEN Fin(@, "error", "List")
                   ELSE IF loop.kind = "requeue" THEN Fin(@, "requeue", "nil")
                   ELSE IF loop.kind = "panic" THEN Fin(@, "panic", "nil")
                   ELSE [@ EXCEPT !.pc = "StatusUpdate",
                                  !.podips = loop.podips]]
    /\ UNCHANGED <<ha, dep, pods, last, succ, pending, serial>>

StepStatusUpdate(p) ==
    /\ inv[p].pc = "StatusUpdate"
    /\ \E failing \in BOOLEAN :
         IF failing \/ ~Found(ha, Req)
         THEN /\ ha' = ha
              /\ inv' = [inv EXCEPT ![p] = Fin(@, "error", "StatusUpdate")]
         ELSE /\ ha' = StatusOnlyUpdate(ha, LocalAgent(inv[p]))
              /\ inv' = [inv EXCEPT ![p] =
                           [Fin(@, "done", "nil") EXCEPT
                              !.stale = (ha.size # inv[p].size)]]
    /\ UNCHANGED <<dep, pods, last, succ, pending, serial>>

ProcStep(p) ==
    \/ Start(p)
    \/ StepGetHomeAgent(p)
    \/ StepDeleteGet(p)
    \/ StepDelete(p)
    \/ StepGetDeployment(p)
    \/ StepCreate(p)
    \/ StepList(p)
    \/ StepStatusUpdate(p)

\* One invocation at a time, the user and the Deployment's controller acting
\* while it runs.
NextStep ==
    \/ ProcStep(1)
    \/ UserCreate
    \/ UserDelete
    \/ UserSetSize
    \/ PodCreate
    \/ PodAssignIp
    \/ PodReady

SpecStep == Init /\ [][NextStep]_vars

\* Two invocations for the same identity; the dispatcher either serialises
\* them (serial) or lets them overlap.
InitRace ==
    /\ ha = NoHomeAgent
    /\ dep = NoDeployment
    /\ pods = <<>>
    /\ last = NoLast
    /\ succ = 0
    /\ pending = FALSE
    /\ inv = [p \in Procs |-> IdleInv]
    /\ serial \in BOOLEAN

NextRace ==
    \/ \E p \in Procs : ProcStep(p)
    \/ UserCreate
    \/ UserDelete

SpecRace == InitRace /\ [][NextRace]_vars

\* ------------------------------------------------ vocabulary of the claims
\* The invocation just made (last.invoked), the store it started from
\* (last.pre) and the store it left (ha, dep, pods).
Issued(op) == \E i \in 1..Len(last.calls) : last.calls[i] = op
Count(op) == Cardinality({i \in 1..Len(last.calls) : last.calls[i] = op})
NoMutation == \A op \in Mutating : ~Issued(op)
StoreUnchanged == ha = last.pre.ha /\ dep = last.pre.dep /\ pods = last.pre.pods
HaExisted == last.pre.ha.exists /\ last.pre.ha.name = Name
             /\ last.pre.ha.namespace = Namespace
DepExisted == last.pre.dep.exists /\ last.pre.dep.name = Name
              /\ last.pre.dep.namespace = Namespace
\* The Instances carrying the selector label parent=name, in listing order.
Labelled == SelectSeq(last.pre.pods, LAMBDA pod : pod.parent = Name)
AllAddressed == \A i \in 1..Len(Labelled) : Labelled[i].ip # ""
ReadyReached == last.pre.dep.readyReplicas >= last.pre.ha.size

\* C1 Convergence: HomeAgent of size N, Deployment with readyReplicas >= N,
\* exactly N labelled Pods, each with an address, no store error: the
\* invocation sets status.nodeIps to those N addresses in listing order and
\* returns done, with no requeue.
C1_Convergence ==
    (/\ last.invoked
     /\ last.failed = "none"
     /\ HaExisted /\ DepExisted /\ ReadyReached
     /\ Len(Labelled) = last.pre.ha.size
     /\ AllAddressed)
    => /\ last.outcome = "done" /\ last.after = 0 /\ last.err = "nil"
       /\ Len(ha.nodeIps) = last.pre.ha.size
       /\ \A i \in 1..Len(Labelled) : ha.nodeIps[i] = Labelled[i].ip

\* C1 witness: a converged invocation with two Pods whose addresses are not
\* in allocation order.
C1_Witness ==
    /\ last.invoked /\ last.failed = "none"
    /\ HaExisted /\ DepExisted /\ ReadyReached /\ AllAddressed
    /\ last.pre.ha.size = 2 /\ Len(Labelled) = 2
    /\ last.outcome = "done"
    /\ ha.nodeIps = <<AddrPool[2], AddrPool[1]>>

\* C2 Idempotence (as claimed): the second of two successive invocations,
\* neither of which met a store error and with no external change between
\* them, leaves the store as the first left it and issues no create, delete
\* or status-update call.
C2_IdempotenceClaim ==
    (last.invoked /\ succ = 2) => (StoreUnchanged /\ NoMutation)

\* C3 Creation-once: HomeAgent of size N exists, no Deployment of its
\* identity, both reads answered: exactly one create call is issued, for a
\* Deployment with the HomeAgent's name and namespace, N replicas and the
\* label parent=name; when it succeeds the Deployment is in the store and the
\* result is requeue after 800ms.  An invocation that finds the Deployment
\* issues no create call.
C3_CreationOnce ==
    last.invoked =>
      /\ (/\ HaExisted /\ ~last.pre.dep.exists
          /\ last.failed \notin {"GetHomeAgent", "GetDeployment"})
         => /\ Count("Create") = 1
            /\ ~Issued("Delete") /\ ~Issued("StatusUpdate")
            /\ last.created.exists
            /\ last.created.name = last.pre.ha.name
            /\ last.created.namespace = last.pre.ha.namespace
            /\ last.created.replicas = last.pre.ha.size
            /\ last.created.parent = last.pre.ha.name
            /\ last.failed = "none"
               => /\ last.outcome = "requeue" /\ last.after = 800
                  /\ last.err = "nil"
                  /\ dep = last.created
      /\ DepExisted => ~Issued("Create")

\* C3 witness: a Deployment with two replicas has just been created.
C3_Witness ==
    /\ last.invoked /\ HaExisted /\ ~last.pre.dep.exists
    /\ Issued("Create") /\ last.outcome = "requeue"
    /\ dep.exists /\ dep.replicas = 2

\* C4 Cleanup: the HomeAgent read returns not-found.  The result is done, no
\* error, no requeue.  If the Deployment exists (and its read is answered) one
\* delete call is issued and, when it succeeds, the Deployment is gone; if no
\* Deployment exists no mutating call is issued and the store is unchanged.
C4_Cleanup ==
    (last.invoked /\ ~last.pre.ha.exists /\ last.failed # "GetHomeAgent")
    => /\ last.outcome = "done" /\ last.err = "nil" /\ last.after = 0
       /\ ~Issued("Create") /\ ~Issued("StatusUpdate")
       /\ (DepExisted /\ last.failed # "DeleteGet")
          => /\ Count("Delete") = 1
             /\ last.failed = "none" => ~dep.exists
       /\ ~last.pre.dep.exists => (NoMutation /\ StoreUnchanged)
       /\ ha = last.pre.ha /\ pods = last.pre.pods

\* C4 witness: the Deployment of a deleted HomeAgent has just been deleted.
C4_Witness ==
    /\ last.invoked /\ ~last.pre.ha.exists /\ DepExisted
    /\ Issued("Delete") /\ last.outcome = "done" /\ ~dep.exists

\* C5 Workload-iff-desired (as claimed): after every invocation that returns
\* done or requeue, store failures of the cleanup path included, the
\* Deployment exists iff the HomeAgent exists.
C5_WorkloadIffDesiredClaim ==
    (last.invoked /\ last.outcome \in {"done", "requeue"})
    => (dep.exists <=> ha.exists)

\* C6 Status-write guard: a status update is issued only when the
\* Deployment's readyReplicas has reached size and every labelled Pod has an
\* address; in every other invocation, and when the update fails, the
\* HomeAgent keeps its previous status.
C6_StatusWriteGuard ==
    last.invoked =>
      /\ Issued("StatusUpdate")
         => (HaExisted /\ DepExisted /\ ReadyReached /\ AllAddressed)
      /\ ~(Issued("StatusUpdate") /\ last.failed = "none")
         => ha = last.pre.ha
      /\ ha.size = last.pre.ha.size /\ ha.exists = last.pre.ha.exists

\* C6 witness: a status update has just replaced a different previous status.
C6_Witness ==
    /\ last.invoked /\ Issued("StatusUpdate") /\ last.failed = "none"
    /\ ha.nodeIps # last.pre.ha.nodeIps
    /\ Len(last.pre.ha.nodeIps) > 0 /\ Len(ha.nodeIps) > 0

\* C7 Error propagation (as claimed): whenever a store operation of the
\* invocation fails with an error other than not-found, the invocation
\* returns that error, never done or requeue.
C7_ErrorPropagationClaim ==
    (last.invoked /\ last.failed # "none")
    => (last.outcome = "error" /\ last.err = last.failed)

\* C8 Eventual convergence (SpecLive): the first invocation creates the
\* Deployment and requeues; every invocation made before size Pods are ready
\* with addresses requeues and leaves the status alone; eventually an
\* invocation writes the size Pod addresses to status.nodeIps and returns done.
LifecycleDone ==
    /\ dep.exists /\ dep.readyReplicas >= ha.size
    /\ Len(pods) = ha.size
    /\ \A i \in 1..Len(pods) : pods[i].ip # ""
ConvergedDone ==
    /\ last.invoked /\ last.outcome = "done" /\ Issued("StatusUpdate")
    /\ Len(ha.nodeIps) = ha.size
    /\ Len(pods) = ha.size
    /\ \A i \in 1..Len(pods) : pods[i].ip # "" /\ ha.nodeIps[i] = pods[i].ip
C8_EventualConvergence ==
    /\ [](last.invoked =>
            /\ dep.exists
            /\ ~last.pre.dep.exists
               => (Count("Create") = 1 /\ last.outcome = "requeue"
                   /\ last.after = 800 /\ dep.replicas = ha.size)
            /\ ~LifecycleDone
               => (last.outcome = "requeue" /\ last.after = 800
                   /\ ha.nodeIps = <<>>))
    /\ <>ConvergedDone

\* C8 witness: the scenario of size 2 has ended with both addresses written.
C8_Witness ==
    /\ ConvergedDone /\ ha.size = 2 /\ ~pending
    /\ ha.nodeIps = <<AddrPool[2], AddrPool[1]>>

\* C9 Partial readiness: HomeAgent and Deployment exist, readyReplicas < size:
\* no create, delete or status update is issued and the store is unchanged,
\* whatever the Pods are; with both reads answered the result is requeue
\* after 800ms.
C9_PartialReadiness ==
    (/\ last.invoked /\ HaExisted /\ DepExisted
     /\ last.pre.dep.readyReplicas < last.pre.ha.size)
    => /\ NoMutation /\ StoreUnchanged
       /\ last.failed = "none"
          => (last.outcome = "requeue" /\ last.after = 800
              /\ last.err = "nil")

\* C9 witness: size 2, one replica ready, and every listed Pod has an address.
C9_Witness ==
    /\ last.invoked /\ HaExisted /\ DepExisted /\ last.failed = "none"
    /\ last.pre.ha.size = 2 /\ last.pre.dep.readyReplicas = 1
    /\ Len(Labelled) >= 1 /\ AllAddressed
    /\ last.outcome = "requeue"

\* C10 Missing address (as claimed): readyReplicas has reached size and some
\* listed Pod, at any position, has an empty address, no store error: the
\* result is requeue after 800ms and status.nodeIps is unchanged.
C10_MissingAddressClaim ==
    (/\ last.invoked /\ last.failed = "none"
     /\ HaExisted /\ DepExisted /\ ReadyReached
     /\ ~AllAddressed)
    => /\ last.outcome = "requeue" /\ last.after = 800
       /\ ha.nodeIps = last.pre.ha.nodeIps

\* C11 Cleanup never errors: after a not-found HomeAgent read the invocation
\* returns done with nil error and no requeue in every case, also when the
\* Deployment read of the cleanup fails and when the delete call fails.
C11_CleanupNeverErrors ==
    (last.invoked /\ ~last.pre.ha.exists /\ last.failed # "GetHomeAgent")
    => /\ last.outcome = "done" /\ last.err = "nil" /\ last.after = 0
       /\ last.failed \in {"none", "DeleteGet", "Delete"}

\* C11 witness: the delete call of a cleanup has just failed, the Deployment
\* is still there and the invocation returned done.
C11_Witness ==
    /\ last.invoked /\ ~last.pre.ha.exists /\ DepExisted
    /\ last.failed = "Delete" /\ last.outcome = "done" /\ dep.exists

\* C13 Proper outcome (as claimed): every invocation ends with exactly one of
\* done, requeue or error, and never aborts abnormally, also when the number
\* of labelled Pods differs from size.
C13_ProperOutcomeClaim ==
    last.invoked => last.outcome \in {"done", "requeue", "error"}

\* C14 Written status (as claimed, SpecChurn): whenever an invocation writes
\* status.nodeIps, the written sequence is as long as the list of labelled
\* Pods, its i-th entry is the address of the i-th listed Pod, its length is
\* size and no entry is empty.
C14_WrittenStatusClaim ==
    (last.invoked /\ Issued("StatusUpdate") /\ last.failed = "none")
    => /\ Len(ha.nodeIps) = Len(Labelled)
       /\ \A i \in 1..Len(Labelled) : ha.nodeIps[i] = Labelled[i].ip
       /\ Len(ha.nodeIps) = last.pre.ha.size
       /\ \A i \in 1..Len(ha.nodeIps) : ha.nodeIps[i] # ""

\* C15 No resize: an invocation that finds the Deployment leaves its replica
\* count as it was, whatever size is; when size has been raised above the
\* replica count and readyReplicas is below size, the invocation requeues
\* after 800ms and leaves the Deployment untouched.
C15_NoResize ==
    last.invoked =>
      /\ (DepExisted /\ dep.exists)
         => dep.replicas = last.pre.dep.replicas
      /\ (/\ HaExisted /\ DepExisted /\ last.failed = "none"
          /\ last.pre.ha.size > last.pre.dep.replicas
          /\ last.pre.dep.readyReplicas < last.pre.ha.size)
         => /\ last.outcome = "requeue" /\ last.after = 800
            /\ dep = last.pre.dep
            /\ NoMutation

\* C15 witness: size was raised to 2 after the Deployment was created with one
\* replica, which is ready; the invocation requeued and the count is still 1.
C15_Witness ==
    /\ last.invoked /\ HaExisted /\ DepExisted /\ last.failed = "none"
    /\ last.pre.ha.size = 2 /\ last.pre.dep.replicas = 1
    /\ last.pre.dep.readyReplicas = 1
    /\ last.outcome = "requeue" /\ dep.replicas = 1

\* C17 State unchanged on error: an invocation that returns an error has left
\* the HomeAgent, the Deployment and the Pods exactly as it found them (a
\* failing store operation applies nothing).
C17_UnchangedOnError ==
    (last.invoked /\ last.outcome = "error")
    => /\ StoreUnchanged
       /\ last.failed # "none"
       /\ \A i \in 1..Len(last.calls) :
            last.calls[i] \in Mutating => last.calls[i] = last.failed

\* C17 witness: the status update of an invocation failed while the addresses
\* it was about to write differ from the stored status.
C17_Witness ==
    /\ last.invoked /\ last.outcome = "error"
    /\ last.failed = "StatusUpdate"
    /\ Len(last.podips) > 0 /\ last.podips # last.pre.ha.nodeIps
    /\ ha.nodeIps = last.pre.ha.nodeIps

\* C18 At most one mutation, issued last: an invocation issues at most one of
\* create, delete and status update, no store operation follows it, and an
\* invocation that issues none leaves the store unchanged.
MutatingCalls == {i \in 1..Len(last.calls) : last.calls[i] \in Mutating}
C18_OneMutationLast ==
    last.invoked =>
      /\ Cardinality(MutatingCalls) <= 1
      /\ \A i \in MutatingCalls : i = Len(last.calls)
      /\ MutatingCalls = {} => StoreUnchanged
      /\ pods = last.pre.pods

\* C18 witness: a cleanup whose third and last store operation is the delete.
C18_Witness ==
    /\ last.invoked /\ last.failed = "none"
    /\ last.calls = <<"GetHomeAgent", "DeleteGet", "Delete">>
    /\ last.pre.dep.exists /\ ~dep.exists

\* C19 Isolation between identities (as claimed): an invocation for
\* Namespace/Name depends only on objects of that identity: what it returns
\* and the store it leaves are what it would return and leave if the Pods of
\* other namespaces were not there.
SameNamespace == SelectSeq(last.pre.pods,
                           LAMBDA pod : pod.namespace = Namespace)
C19_IsolationClaim ==
    last.invoked =>
      LET r == Reconcile(Req, last.pre.ha, last.pre.dep, SameNamespace,
                         last.failed)
      IN  /\ r.outcome = last.outcome
          /\ r.ha = ha
          /\ r.dep = dep

\* C12: no step of a reconcile invocation creates or deletes the HomeAgent or
\* changes its size; the only field of it a step writes is status.nodeIps, so
\* a size the user wrote while the invocation ran survives the status update
\* made from the invocation's stale copy.
C12_SpecReadOnly ==
    [][inv' # inv =>
         /\ ha'.exists = ha.exists
         /\ ha'.name = ha.name
         /\ ha'.namespace = ha.namespace
         /\ ha'.size = ha.size]_vars

\* An invocation has written the status from a copy whose size the user
\* had changed in the meantime.
C12_Witness ==
    \E p \in Procs :
        /\ inv[p].pc = "finished"
        /\ inv[p].outcome = "done"
        /\ inv[p].stale
        /\ ha.exists
        /\ ha.size # inv[p].size
        /\ inv[p].size > 0
        /\ ha.nodeIps = inv[p].podips

\* C16: two invocations for one identity that both issued the create call
\* can only have overlapped; the store accepted at most one of the two
\* calls, and when it accepted one the other invocation returned an error
\* (already-exists, or another failure of the call), not done or requeue.
\* With the dispatcher serialising the invocations no such state is reached.
C16_DuplicateCreateRace ==
    (\A p \in Procs : inv[p].created) =>
        /\ ~serial
        /\ \A p, q \in Procs :
              (p # q /\ inv[p].outcome = "requeue") =>
                  /\ inv[q].outcome = "error"
                  /\ inv[q].err \in {"AlreadyExists", "Create"}

\* Both invocations created; one was accepted, the other got already-exists.
C16_Witness ==
    /\ ~serial
    /\ \E p, q \in Procs :
          /\ p # q
          /\ inv[p].created /\ inv[p].outcome = "requeue"
          /\ inv[q].created /\ inv[q].outcome = "error"
          /\ inv[q].err = "AlreadyExists"
          /\ dep.exists

====
